---- MODULE Spec2Model ----
(***************************************************************************)
(* State-machine model of src/app.py: the Flask request handlers of the    *)
(* report service and the two stores they act on.                          *)
(*                                                                         *)
(*  - the Supabase store: table "reports", tables "sighting_clicks" and    *)
(*    "resolved_clicks", and the storage bucket "reports-images";          *)
(*  - the local JSON file DATA_FILE read by load_reports and written by    *)
(*    save_reports.                                                        *)
(*                                                                         *)
(* Each request is served by one of NumProcs handler threads.  A handler   *)
(* is a sequence of steps, one step per call to a store; the steps of      *)
(* different requests interleave.  Every Supabase call may raise, which    *)
(* the handler's "except Exception" turns into a 500 response.             *)
(***************************************************************************)
EXTENDS Integers, Sequences, FiniteSets, TLC

(* ------------------------------ bounds -------------------------------- *)
NumProcs == 2
NumIps == 5
MaxReports == 2
MaxLegacy == 2
MaxRequests == 2
MaxSeqRequests == 6
MaxFileRequests == 2

(* ------------------------- program constants --------------------------- *)
\* app.py:446  "if current_resolved_count_after >= 5"
RESOLVED_THRESHOLD == 5
\* Python's None for numbers and image names (app.py:172), and for text.
None == -1
NoneText == "<None>"
\* app.py:27
ALLOWED_EXTENSIONS == {"png", "jpg", "jpeg", "gif"}

Procs == 1..NumProcs
Ips == 1..NumIps
\* ids the reports table assigns, and the ids of the records of DATA_FILE
ReportIds == 1..MaxReports
LegacyIds == (MaxReports + 1)..(MaxReports + MaxLegacy)
AllIds == ReportIds \cup LegacyIds
\* address of a reverse proxy, for requests that carry X-Forwarded-For
ProxyAddr == NumIps + 1

VARIABLES
    reports,          \* Supabase table "reports": id -> row
    sighting_clicks,  \* Supabase table "sighting_clicks": <<report_id, client_ip>> -> number of rows
    resolved_clicks,  \* Supabase table "resolved_clicks": <<report_id, client_ip>> -> number of rows
    blobs,            \* Supabase storage bucket "reports-images": set of image names
    fileReports,      \* contents of DATA_FILE: id -> record
    nextId,           \* the id the reports table gives to the next inserted row
    nextImg,          \* the next uuid4 image name
    pc,               \* per handler thread: the step it is at
    req,              \* per handler thread: the request it serves
    loc,              \* per handler thread: the handler's local variables
    resp,             \* per handler thread: the response, once pc = "done"
    nreq,             \* number of requests received so far
    firstIp,          \* the lowest client address that sends requests
    usedIps,          \* the highest client address seen so far
    accepted,         \* history: <<kind, report_id, client_ip>> -> number of success responses to votes
    deletedOk         \* history: ids for which delete_report answered success

vars == <<reports, sighting_clicks, resolved_clicks, blobs, fileReports, nextId, nextImg,
          pc, req, loc, resp, nreq, firstIp, usedIps, accepted, deletedOk>>

storeVars == <<reports, sighting_clicks, resolved_clicks, blobs, fileReports, nextId, nextImg>>
histVars == <<accepted, deletedOk>>

(* ------------------------------ helpers -------------------------------- *)
Restrict(f, S) == [x \in S |-> f[x]]

Max(a, b) == IF a >= b THEN a ELSE b

\* str.lower() on the file extensions that occur in the requests
Lower(s) ==
    CASE s = "PNG" -> "png"
      [] s = "JPG" -> "jpg"
      [] OTHER -> s

\* app.py:234  allowed_file(filename); a filename is [stem, ext], ext = "" when it has no dot
allowed_file(filename) ==
    /\ filename.ext # ""
    /\ Lower(filename.ext) \in ALLOWED_EXTENSIONS

\* What a request tells about its sender: chain is the list of addresses in its
\* X-Forwarded-For header (the client first, then the proxies it passed; empty
\* when there is no header), remote_addr the peer of the connection, and
\* device_token a token the client sends along, None when it sends none.
NoHeaders == [chain |-> <<>>, remote_addr |-> None, device_token |-> None]

\* The text of a header "a" or "a, b", as a number: the text of the address a
\* itself for a single entry, and a number that is no address for two entries.
HeaderValue(chain) ==
    IF Len(chain) = 1 THEN chain[1] ELSE chain[1] * (ProxyAddr + 1) + chain[2]

\* request.headers.getlist("X-Forwarded-For"): one value per header line
getlist(request) ==
    IF request.chain = <<>> THEN <<>> ELSE <<HeaderValue(request.chain)>>

\* app.py:33  get_client_ip(): the value of the first X-Forwarded-For header
\* line if there is one, else remote_addr
get_client_ip(request) ==
    IF Len(getlist(request)) > 0 THEN getlist(request)[1] ELSE request.remote_addr

\* The HTTP requests a client with address ip can send without a device token:
\* directly, through one proxy, and through two.
RequestsFrom(ip) ==
    { [NoHeaders EXCEPT !.remote_addr = ip],
      [NoHeaders EXCEPT !.chain = <<ip>>, !.remote_addr = ProxyAddr],
      [NoHeaders EXCEPT !.chain = <<ip, ProxyAddr>>, !.remote_addr = ProxyAddr] }

\* the address of the client that sent the request
Origin(request) ==
    IF request.chain = <<>> THEN request.remote_addr ELSE request.chain[1]

\* The identities get_client_ip can return for these requests.
Identities == UNION { { get_client_ip(h) : h \in RequestsFrom(ip) } : ip \in Ips }

\* Python's float(s) on the form values that occur: the number in units of 1e-4
\* degree, or None where float() raises ValueError.
FloatTable ==
    ("14.5995" :> 145995) @@ ("120.9842" :> 1209842)

IsFloat(s) == s \in DOMAIN FloatTable

\* The multipart forms of POST /api/reports that the model sends.
NoFile == [stem |-> "", ext |-> ""]
GoodForm ==
    [issueType |-> "pothole", customIssue |-> "", description |-> "",
     location |-> "Manila", latitude |-> "14.5995", longitude |-> "120.9842",
     image |-> NoFile]
CreateForms ==
    { GoodForm,
      [GoodForm EXCEPT !.image = [stem |-> "photo", ext |-> "PNG"]],
      [GoodForm EXCEPT !.image = [stem |-> "notes", ext |-> "txt"]],
      [GoodForm EXCEPT !.issueType = "custom", !.customIssue = "sinkhole"],
      [GoodForm EXCEPT !.customIssue = "sinkhole"],
      [GoodForm EXCEPT !.issueType = ""],
      [GoodForm EXCEPT !.location = ""],
      [GoodForm EXCEPT !.latitude = ""],
      [GoodForm EXCEPT !.longitude = "12o.98"] }

NoRequest ==
    [op |-> "none", report_id |-> None, client_ip |-> None, form |-> GoodForm,
     user_lat |-> None, user_lng |-> None, new_status |-> NoneText,
     headers |-> NoHeaders]
NoLocals ==
    [count |-> None, image_filename |-> None, snapshot |-> <<>>,
     has_sighting_click |-> None]
NoRow ==
    [issue_type |-> NoneText, custom_issue |-> NoneText, description |-> NoneText,
     location_name |-> NoneText, latitude |-> None, longitude |-> None,
     image_filename |-> None]
NoResponse ==
    [status |-> 0, report_id |-> None, report_deleted |-> FALSE, report |-> NoRow,
     reports |-> <<>>, has_sighting_click |-> FALSE, has_resolved_click |-> FALSE]

Response(code) == [NoResponse EXCEPT !.status = code]

NoClicks == [k \in ReportIds \X Identities |-> 0]

\* rows of table `clicks` with .eq("report_id", r).eq("client_ip", ip)
SelectClicks(clicks, r, ip) == clicks[<<r, ip>>]

InsertClick(clicks, r, ip) == [clicks EXCEPT ![<<r, ip>>] = @ + 1]

\* The legacy records DATA_FILE may hold when the process starts; the image of
\* record i is the blob named i.
LegacyRecord(i, withImage) ==
    [issue_type |-> "flooding", custom_issue |-> NoneText, description |-> "",
     location_name |-> "Quezon", latitude |-> 145995, longitude |-> 1209842,
     image_filename |-> IF withImage THEN i ELSE None,
     status |-> "pending", updated_at |-> 0]

(* ----------------------- receiving and answering ----------------------- *)
\* A handler thread picks up a request, one of at most `limit`.
Receive(p, r, first, limit) ==
    /\ pc[p] = "idle"
    /\ nreq < limit
    /\ pc' = [pc EXCEPT ![p] = first]
    /\ req' = [req EXCEPT ![p] = r]
    /\ loc' = [loc EXCEPT ![p] = NoLocals]
    /\ nreq' = nreq + 1
    /\ usedIps' = Max(usedIps, Origin(r.headers))
    /\ UNCHANGED <<resp, firstIp, storeVars, histVars>>

\* The handler returns: the response is in resp[p].
Finish(p, response) ==
    /\ pc' = [pc EXCEPT ![p] = "done"]
    /\ resp' = [resp EXCEPT ![p] = response]
    /\ UNCHANGED <<req, nreq, firstIp, usedIps>>

Goto(p, label) ==
    /\ pc' = [pc EXCEPT ![p] = label]
    /\ UNCHANGED <<req, resp, nreq, firstIp, usedIps>>

\* The response has been sent; the thread is free again.
Deliver(p) ==
    /\ pc[p] = "done"
    /\ pc' = [pc EXCEPT ![p] = "idle"]
    /\ req' = [req EXCEPT ![p] = NoRequest]
    /\ loc' = [loc EXCEPT ![p] = NoLocals]
    /\ resp' = [resp EXCEPT ![p] = NoResponse]
    /\ UNCHANGED <<nreq, firstIp, usedIps, storeVars, histVars>>

\* Client addresses are interchangeable: a new address is the next unused one,
\* and the addresses below firstIp (the seeded voters but one) send nothing.
ClientIps == { ip \in Ips : firstIp <= ip /\ ip <= usedIps + 1 }

\* The vote requests with the headers `senders`; the handler's client_ip is
\* app.py:383, 420.
VoteRequests(op, senders) ==
    { [NoRequest EXCEPT !.op = op, !.report_id = r, !.client_ip = get_client_ip(h),
                        !.headers = h] :
        r \in ReportIds, h \in senders }

\* the clients connect directly and send no device token
Direct ==
    { h \in UNION { RequestsFrom(ip) : ip \in ClientIps } : h.chain = <<>> }

\* the clients connect directly or through proxies, with or without a device token
DeviceTokens == { -2, -3 }
AnyRoute ==
    { [h EXCEPT !.device_token = d] :
        h \in UNION { RequestsFrom(ip) : ip \in ClientIps },
        d \in {None} \cup DeviceTokens }

(* --------------------- a Supabase call that raises --------------------- *)
\* The steps that are one call to Supabase (table or storage) each.
SupabaseCalls ==
    { "s_check", "s_read", "s_update", "s_insert",
      "r_check", "r_read", "r_update", "r_insert", "r_reread", "r_delete",
      "c_upload", "c_insert", "l_select", "u_sighting", "u_resolved" }

\* StoreError with the upload's error swallowed: the create goes on to insert the
\* row with the name of the image that was not stored.
StoreErrorUploadSwallowed(p) ==
    /\ pc[p] \in SupabaseCalls
    /\ IF pc[p] = "c_upload"
       THEN /\ loc' = [loc EXCEPT ![p].image_filename = nextImg]
            /\ nextImg' = nextImg + 1
            /\ Goto(p, "c_insert")
            /\ UNCHANGED <<reports, sighting_clicks, resolved_clicks, blobs, fileReports,
                           nextId, histVars>>
       ELSE /\ Finish(p, Response(500))
            /\ UNCHANGED <<loc, storeVars, histVars>>

\* execute() / upload() raises: the handler's "except Exception" answers 500 and
\* nothing of the call is stored.
StoreError(p) ==
    /\ pc[p] \in SupabaseCalls
    /\ Finish(p, Response(500))
    /\ UNCHANGED <<loc, storeVars, histVars>>

(* --------------- POST /api/reports/<report_id>/sightings ---------------- *)
StartSighting(p, senders, limit) ==
    \E r \in VoteRequests("add_sighting", senders) : Receive(p, r, "s_check", limit)

\* SightingCheck consulting the other clicks table.
SightingCheckWrongTable(p) ==
    /\ pc[p] = "s_check"
    /\ LET existing_sighting ==
               SelectClicks(resolved_clicks, req[p].report_id, req[p].client_ip)
       IN  IF existing_sighting > 0
           THEN Finish(p, Response(409))
           ELSE Goto(p, "s_read")
    /\ UNCHANGED <<loc, storeVars, histVars>>

\* app.py:386-391
SightingCheck(p) ==
    /\ pc[p] = "s_check"
    /\ LET existing_sighting ==
               SelectClicks(sighting_clicks, req[p].report_id, req[p].client_ip)
       IN  IF existing_sighting > 0
           THEN Finish(p, Response(409))
           ELSE Goto(p, "s_read")
    /\ UNCHANGED <<loc, storeVars, histVars>>

\* app.py:394-395  .single() raises when no row has this id
SightingRead(p) ==
    /\ pc[p] = "s_read"
    /\ IF req[p].report_id \in DOMAIN reports
       THEN /\ loc' = [loc EXCEPT ![p].count = reports[req[p].report_id].sightings_count]
            /\ Goto(p, "s_update")
       ELSE /\ Finish(p, Response(500))
            /\ UNCHANGED loc
    /\ UNCHANGED <<storeVars, histVars>>

\* app.py:397  "current_sightings + 1" raises TypeError on None; the update
\* touches the rows with this id, if any
SightingUpdate(p) ==
    /\ pc[p] = "s_update"
    /\ IF loc[p].count = None
       THEN /\ Finish(p, Response(500))
            /\ UNCHANGED reports
       ELSE /\ reports' = IF req[p].report_id \in DOMAIN reports
                          THEN [reports EXCEPT ![req[p].report_id].sightings_count =
                                                   loc[p].count + 1]
                          ELSE reports
            /\ Goto(p, "s_insert")
    /\ UNCHANGED <<loc, sighting_clicks, resolved_clicks, blobs, fileReports, nextId,
                   nextImg, histVars>>

\* SightingInsert followed by add_resolved's threshold rule.
SightingInsertThenDelete(p) ==
    /\ pc[p] = "s_insert"
    /\ sighting_clicks' = InsertClick(sighting_clicks, req[p].report_id, req[p].client_ip)
    /\ reports' = IF /\ req[p].report_id \in DOMAIN reports
                     /\ reports[req[p].report_id].sightings_count >= RESOLVED_THRESHOLD
                  THEN Restrict(reports, DOMAIN reports \ {req[p].report_id})
                  ELSE reports
    /\ Finish(p, Response(200))
    /\ accepted' = [accepted EXCEPT ![<<"sighting", req[p].report_id, req[p].client_ip>>] = @ + 1]
    /\ UNCHANGED <<loc, resolved_clicks, blobs, fileReports, nextId, nextImg, deletedOk>>

\* app.py:400-408
SightingInsert(p) ==
    /\ pc[p] = "s_insert"
    /\ sighting_clicks' = InsertClick(sighting_clicks, req[p].report_id, req[p].client_ip)
    /\ Finish(p, Response(200))
    /\ accepted' = [accepted EXCEPT ![<<"sighting", req[p].report_id, req[p].client_ip>>] = @ + 1]
    /\ UNCHANGED <<loc, reports, resolved_clicks, blobs, fileReports, nextId, nextImg,
                   deletedOk>>

add_sighting(p) ==
    \/ SightingCheck(p)
    \/ SightingRead(p)
    \/ SightingUpdate(p)
    \/ SightingInsert(p)

(* ---------------- POST /api/reports/<report_id>/resolved ---------------- *)
StartResolved(p, senders, limit) ==
    \E r \in VoteRequests("add_resolved", senders) : Receive(p, r, "r_check", limit)

\* app.py:423-428
ResolvedCheck(p) ==
    /\ pc[p] = "r_check"
    /\ LET existing_resolved_click ==
               SelectClicks(resolved_clicks, req[p].report_id, req[p].client_ip)
       IN  IF existing_resolved_click > 0
           THEN Finish(p, Response(409))
           ELSE Goto(p, "r_read")
    /\ UNCHANGED <<loc, storeVars, histVars>>

\* app.py:431-432
ResolvedRead(p) ==
    /\ pc[p] = "r_read"
    /\ IF req[p].report_id \in DOMAIN reports
       THEN /\ loc' = [loc EXCEPT ![p].count = reports[req[p].report_id].resolved_count]
            /\ Goto(p, "r_update")
       ELSE /\ Finish(p, Response(500))
            /\ UNCHANGED loc
    /\ UNCHANGED <<storeVars, histVars>>

\* app.py:434
ResolvedUpdate(p) ==
    /\ pc[p] = "r_update"
    /\ IF loc[p].count = None
       THEN /\ Finish(p, Response(500))
            /\ UNCHANGED reports
       ELSE /\ reports' = IF req[p].report_id \in DOMAIN reports
                          THEN [reports EXCEPT ![req[p].report_id].resolved_count =
                                                   loc[p].count + 1]
                          ELSE reports
            /\ Goto(p, "r_insert")
    /\ UNCHANGED <<loc, sighting_clicks, resolved_clicks, blobs, fileReports, nextId,
                   nextImg, histVars>>

\* app.py:437-440
ResolvedInsert(p) ==
    /\ pc[p] = "r_insert"
    /\ resolved_clicks' = InsertClick(resolved_clicks, req[p].report_id, req[p].client_ip)
    /\ Goto(p, "r_reread")
    /\ UNCHANGED <<loc, reports, sighting_clicks, blobs, fileReports, nextId, nextImg,
                   histVars>>

\* app.py:443-446 and 454-458
ResolvedReread(p) ==
    /\ pc[p] = "r_reread"
    /\ IF req[p].report_id \notin DOMAIN reports
       THEN /\ Finish(p, Response(500))
            /\ UNCHANGED accepted
       ELSE LET current_resolved_count_after == reports[req[p].report_id].resolved_count
            IN  IF current_resolved_count_after >= RESOLVED_THRESHOLD
                THEN /\ Goto(p, "r_delete")
                     /\ UNCHANGED accepted
                ELSE /\ Finish(p, Response(200))
                     /\ accepted' = [accepted EXCEPT
                            ![<<"resolved", req[p].report_id, req[p].client_ip>>] = @ + 1]
    /\ UNCHANGED <<loc, storeVars, deletedOk>>

\* The rows of a clicks table after the report row r is deleted: kept, or removed
\* with it when the table's foreign key cascades (the schema is not in the repository).
AfterReportDelete(clicks, r, cascade) ==
    IF cascade
    THEN [k \in DOMAIN clicks |-> IF k[1] = r THEN 0 ELSE clicks[k]]
    ELSE clicks

\* app.py:447-452
ResolvedDelete(p) ==
    /\ pc[p] = "r_delete"
    /\ reports' = Restrict(reports, DOMAIN reports \ {req[p].report_id})
    /\ \E cascade \in BOOLEAN :
          /\ sighting_clicks' = AfterReportDelete(sighting_clicks, req[p].report_id, cascade)
          /\ resolved_clicks' = AfterReportDelete(resolved_clicks, req[p].report_id, cascade)
    /\ Finish(p, [Response(200) EXCEPT !.report_deleted = TRUE])
    /\ accepted' = [accepted EXCEPT
                        ![<<"resolved", req[p].report_id, req[p].client_ip>>] = @ + 1]
    /\ UNCHANGED <<loc, blobs, fileReports, nextId, nextImg, deletedOk>>

add_resolved(p) ==
    \/ ResolvedCheck(p)
    \/ ResolvedRead(p)
    \/ ResolvedUpdate(p)
    \/ ResolvedInsert(p)
    \/ ResolvedReread(p)
    \/ ResolvedDelete(p)

(* -------------------------- POST /api/reports -------------------------- *)
\* Flask serves a URL by the first rule registered for it: reports_handler
\* (app.py:141) answers both GET and POST /api/reports, and the later
\* create_report and get_reports never run.
\* app.py:173-175  the request carries an image that is uploaded
HasUpload(form) == form.image.stem # "" /\ allowed_file(form.image)

\* At most MaxReports rows are ever inserted.
StartCreate(p, forms, limit) ==
    /\ nextId + Cardinality({q \in Procs : req[q].op = "create"}) <= MaxReports
    /\ \E form \in forms :
          Receive(p, [NoRequest EXCEPT !.op = "create", !.form = form],
                  IF HasUpload(form) THEN "c_upload" ELSE "c_insert", limit)

\* app.py:176-188  a fresh uuid4 name, uploaded to the bucket
CreateUpload(p) ==
    /\ pc[p] = "c_upload"
    /\ LET image_filename == nextImg
       IN  /\ nextImg' = nextImg + 1
           /\ blobs' = blobs \cup {image_filename}
           /\ loc' = [loc EXCEPT ![p].image_filename = image_filename]
    /\ Goto(p, "c_insert")
    /\ UNCHANGED <<reports, sighting_clicks, resolved_clicks, fileReports, nextId, histVars>>

\* app.py:209-210  "float(x) if x else None"; None here also when float() raises
ParseCoordinate(s) ==
    IF s = "" THEN None ELSE IF IsFloat(s) THEN FloatTable[s] ELSE None

\* app.py:204-212  the inserted row.  The insert names seven columns.  The two
\* counters are left to the table's default, 0 (the vote handlers add 1 to what
\* they read, app.py:397, 434); no statement writes a status to the reports
\* table, so the row has none.
NewRow(form, image_filename) ==
    [issue_type |-> form.issueType,
     custom_issue |-> IF form.issueType = "custom" THEN form.customIssue ELSE NoneText,
     description |-> form.description,
     location_name |-> form.location,
     latitude |-> ParseCoordinate(form.latitude),
     longitude |-> ParseCoordinate(form.longitude),
     image_filename |-> image_filename,
     sightings_count |-> 0,
     resolved_count |-> 0,
     status |-> NoneText]

\* app.py:196-231  float() raising ValueError is answered 500, as any exception
CreateInsert(p) ==
    /\ pc[p] = "c_insert"
    /\ LET form == req[p].form
           raises == \/ form.latitude # "" /\ ~IsFloat(form.latitude)
                     \/ form.longitude # "" /\ ~IsFloat(form.longitude)
       IN  IF raises
           THEN /\ Finish(p, Response(500))
                /\ UNCHANGED <<reports, nextId>>
           ELSE /\ reports' = (nextId :> NewRow(form, loc[p].image_filename)) @@ reports
                /\ nextId' = nextId + 1
                /\ Finish(p, [Response(201) EXCEPT !.report_id = nextId])
    /\ UNCHANGED <<loc, sighting_clicks, resolved_clicks, blobs, fileReports, nextImg,
                   histVars>>

reports_handler_post(p) ==
    \/ CreateUpload(p)
    \/ CreateInsert(p)

(* ------------------------------- Init ---------------------------------- *)
\* What the stores hold when the process starts.  files is the contents of
\* DATA_FILE and images the bucket's blobs that its records name.  seed is the
\* database: empty (seed.k = None), or one report created by an earlier request
\* with an image (GoodForm and a photo) on which the clients 1..seed.k have each
\* cast one resolved vote.  A report that was stored before the table had its
\* counter columns (seed.counted = FALSE) has NULL in both.
SeedImage == MaxReports + MaxLegacy + 1

InitWith(files, images, seed) ==
    /\ reports = IF seed.k = None THEN <<>>
                 ELSE (1 :> [NewRow(GoodForm, SeedImage) EXCEPT
                                !.sightings_count = IF seed.counted THEN 0 ELSE None,
                                !.resolved_count = IF seed.counted THEN seed.k ELSE None])
    /\ sighting_clicks = NoClicks
    /\ resolved_clicks = [c \in ReportIds \X Identities |->
                              IF c[1] = 1 /\ c[2] <= seed.k THEN 1 ELSE 0]
    /\ fileReports = files
    /\ blobs = images \cup (IF seed.k # None THEN {SeedImage} ELSE {})
    /\ nextId = IF seed.k = None THEN 1 ELSE 2
    /\ nextImg = SeedImage + 1
    /\ pc = [p \in Procs |-> "idle"]
    /\ req = [p \in Procs |-> NoRequest]
    /\ loc = [p \in Procs |-> NoLocals]
    /\ resp = [p \in Procs |-> NoResponse]
    /\ nreq = 0
    /\ firstIp = Max(1, seed.k)
    /\ usedIps = Max(0, seed.k)
    /\ accepted = [c \in {"sighting", "resolved"} \X ReportIds \X Identities |->
                       IF c[1] = "resolved" /\ c[2] = 1 /\ c[3] <= seed.k THEN 1 ELSE 0]
    /\ deletedOk = {}

NoSeed == [k |-> None, counted |-> TRUE]
Seeds ==
    {NoSeed, [k |-> 0, counted |-> FALSE]}
        \cup { [k |-> k, counted |-> TRUE] :
                  k \in {RESOLVED_THRESHOLD - 2, RESOLVED_THRESHOLD - 1} }

\* DATA_FILE is absent, or holds records written by an earlier deployment, each
\* with or without an image in the bucket; the database is empty or seeded.
Init ==
    \E S \in SUBSET LegacyIds, I \in SUBSET LegacyIds, seed \in Seeds :
        /\ I \subseteq S
        /\ InitWith([i \in S |-> LegacyRecord(i, i \in I)], I, seed)

\* A fresh deployment: no DATA_FILE, an empty bucket, an empty database.
InitFresh == InitWith(<<>>, {}, NoSeed)

(* --------------------- GET /api/reports/<report_id> -------------------- *)
\* app.py:237-243  load_reports(): the file's records, [] when there is no file
load_reports == fileReports

StartGet(p, limit) ==
    \E r \in AllIds :
        Receive(p, [NoRequest EXCEPT !.op = "get_report", !.report_id = r], "g_load", limit)

\* app.py:356-371
get_report(p) ==
    /\ pc[p] = "g_load"
    /\ LET file == load_reports
       IN  IF req[p].report_id \in DOMAIN file
           THEN Finish(p, [Response(200) EXCEPT !.report = file[req[p].report_id]])
           ELSE Finish(p, Response(404))
    /\ UNCHANGED <<loc, storeVars, histVars>>

(* -------------------- DELETE /api/reports/<report_id> ------------------ *)
StartDelete(p, limit) ==
    \E r \in AllIds :
        Receive(p, [NoRequest EXCEPT !.op = "delete_report", !.report_id = r], "d_load",
                limit)

\* app.py:528-539
DeleteLoad(p) ==
    /\ pc[p] = "d_load"
    /\ LET file == load_reports
       IN  IF req[p].report_id \notin DOMAIN file
           THEN /\ Finish(p, Response(404))
                /\ UNCHANGED loc
           ELSE LET image_filename == file[req[p].report_id].image_filename
                IN  /\ loc' = [loc EXCEPT ![p].snapshot = file,
                                          ![p].image_filename = image_filename]
                    /\ Goto(p, IF image_filename # None THEN "d_remove" ELSE "d_save")
    /\ UNCHANGED <<storeVars, histVars>>

\* DeleteRemove without the inner try: a remove() that raises reaches the
\* handler's "except Exception".
DeleteRemoveRaises(p) ==
    /\ pc[p] = "d_remove"
    /\ \/ /\ blobs' = blobs \ {loc[p].image_filename}
          /\ Goto(p, "d_save")
       \/ /\ UNCHANGED blobs
          /\ Finish(p, Response(500))
    /\ UNCHANGED <<loc, reports, sighting_clicks, resolved_clicks, fileReports, nextId,
                   nextImg, histVars>>

\* app.py:540-543  the blob is removed, or remove() raises and the error is printed
DeleteRemove(p) ==
    /\ pc[p] = "d_remove"
    /\ \/ blobs' = blobs \ {loc[p].image_filename}
       \/ UNCHANGED blobs
    /\ Goto(p, "d_save")
    /\ UNCHANGED <<loc, reports, sighting_clicks, resolved_clicks, fileReports, nextId,
                   nextImg, histVars>>

\* app.py:546-552  the records loaded at d_load, without this one, are written back
DeleteSave(p) ==
    /\ pc[p] = "d_save"
    /\ fileReports' = Restrict(loc[p].snapshot, DOMAIN loc[p].snapshot \ {req[p].report_id})
    /\ Finish(p, Response(200))
    /\ deletedOk' = deletedOk \cup {req[p].report_id}
    /\ UNCHANGED <<loc, reports, sighting_clicks, resolved_clicks, blobs, nextId, nextImg,
                   accepted>>

delete_report(p) ==
    \/ DeleteLoad(p)
    \/ DeleteRemove(p)
    \/ DeleteSave(p)

(* ---------------- GET /api/reports/<report_id>/user-status -------------- *)
StartUserStatus(p, senders, limit) ==
    \E r \in VoteRequests("get_user_status", senders) : Receive(p, r, "u_sighting", limit)

\* app.py:472  the rows of sighting_clicks for this report and address
UserStatusSighting(p) ==
    /\ pc[p] = "u_sighting"
    /\ loc' = [loc EXCEPT ![p].has_sighting_click =
                   SelectClicks(sighting_clicks, req[p].report_id, req[p].client_ip)]
    /\ Goto(p, "u_resolved")
    /\ UNCHANGED <<storeVars, histVars>>

\* UserStatusResolved reading sighting_clicks a second time.
UserStatusResolvedWrongTable(p) ==
    /\ pc[p] = "u_resolved"
    /\ LET has_resolved_click ==
               SelectClicks(sighting_clicks, req[p].report_id, req[p].client_ip)
       IN  Finish(p, [Response(200) EXCEPT
                         !.has_sighting_click = loc[p].has_sighting_click > 0,
                         !.has_resolved_click = has_resolved_click > 0])
    /\ UNCHANGED <<loc, storeVars, histVars>>

\* app.py:473-479  the rows of resolved_clicks, and the answer
UserStatusResolved(p) ==
    /\ pc[p] = "u_resolved"
    /\ LET has_resolved_click ==
               SelectClicks(resolved_clicks, req[p].report_id, req[p].client_ip)
       IN  Finish(p, [Response(200) EXCEPT
                         !.has_sighting_click = loc[p].has_sighting_click > 0,
                         !.has_resolved_click = has_resolved_click > 0])
    /\ UNCHANGED <<loc, storeVars, histVars>>

get_user_status(p) ==
    \/ UserStatusSighting(p)
    \/ UserStatusResolved(p)

(* ---------------------- PUT /api/reports/<report_id> ------------------- *)
\* app.py:494
ValidStatuses == {"pending", "in_progress", "resolved"}

\* The values of data.get('status') the model sends: the valid ones, an unknown
\* one, and None for a body without the key.
StatusInputs == ValidStatuses \cup {"done", NoneText}

\* app.py:510  datetime.now(): the requests received so far serve as the clock
now == nreq

StartStatus(p, statuses, limit) ==
    \E r \in AllIds, st \in statuses :
        Receive(p, [NoRequest EXCEPT !.op = "update_report_status", !.report_id = r,
                                     !.new_status = st],
                "p_load", limit)

\* app.py:491-510  the status is validated, the file is loaded and the record
\* changed in the loaded list
StatusLoad(p) ==
    /\ pc[p] = "p_load"
    /\ LET new_status == req[p].new_status
           file == load_reports
       IN  IF new_status \notin ValidStatuses
           THEN /\ Finish(p, Response(400))
                /\ UNCHANGED loc
           ELSE IF req[p].report_id \notin DOMAIN file
           THEN /\ Finish(p, Response(404))
                /\ UNCHANGED loc
           ELSE /\ loc' = [loc EXCEPT ![p].snapshot =
                               [file EXCEPT ![req[p].report_id].status = new_status,
                                            ![req[p].report_id].updated_at = now]]
                /\ Goto(p, "p_save")
    /\ UNCHANGED <<storeVars, histVars>>

\* app.py:511-516  the loaded list is written back
StatusSave(p) ==
    /\ pc[p] = "p_save"
    /\ fileReports' = loc[p].snapshot
    /\ Finish(p, Response(200))
    /\ UNCHANGED <<loc, reports, sighting_clicks, resolved_clicks, blobs, nextId, nextImg,
                   histVars>>

update_report_status(p) ==
    \/ StatusLoad(p)
    \/ StatusSave(p)

(* --------------------------- GET /api/reports -------------------------- *)
Abs(x) == IF x < 0 THEN -x ELSE x

\* floor of the square root, by bisection
RECURSIVE ISqrtIn(_, _, _)
ISqrtIn(n, lo, hi) ==
    IF lo >= hi THEN lo
    ELSE LET mid == (lo + hi + 1) \div 2
         IN  IF mid * mid <= n THEN ISqrtIn(n, mid, hi) ELSE ISqrtIn(n, lo, mid - 1)

ISqrt(n) == ISqrtIn(n, 0, 46340)

\* app.py:46  R = 6371, the radius of the Earth in km
R == 6371
\* distances beyond this many metres are reported as this many
FarMetres == 30000

\* app.py:47  math.radians, from units of 1e-4 degree to units of 1e-4 radian
radians(u) == (u * 1745) \div 100000

\* math.cos by its Taylor series, argument and result in units of 1e-4
cos(x) ==
    LET x2 == (x * x) \div 10000
        x4 == (x2 * x2) \div 10000
        x6 == (x4 * x2) \div 10000
    IN  10000 - x2 \div 2 + x4 \div 24 - x6 \div 720

Min(a, b) == IF a <= b THEN a ELSE b

\* R * (angle of d units of 1e-4 degree), in metres
ArcMetres(d) ==
    IF Abs(d) > 10000 THEN FarMetres
    ELSE Min(FarMetres, (((Abs(d) * R) \div 100) * 1745) \div 10000)

\* app.py:41-53  haversine(), in metres, coordinates in units of 1e-4 degree.  For
\* the angles that matter to the 1 km filter, sin x and atan2(sqrt a, sqrt(1 - a))
\* are x and sqrt a up to a relative error of 1e-6, and the distance is
\* R * sqrt(dlat^2 + cos(lat1) * cos(lat2) * dlon^2).
haversine(lat1, lon1, lat2, lon2) ==
    LET dy == ArcMetres(lat2 - lat1)
        dx == ArcMetres(lon2 - lon1)
        dx1 == (cos(radians(lat1)) * dx) \div 10000
        dx2 == (cos(radians(lat2)) * dx) \div 10000
    IN  ISqrt(dy * dy + dx1 * dx2)

\* The reference points of the list requests: none, latitude only, the point of
\* the reports, and a point 2 km to the north of it.
ListPoints ==
    { <<None, None>>, <<145995, None>>, <<145995, 1209842>>, <<146175, 1209842>> }

StartList(p, limit) ==
    \E pt \in ListPoints :
        Receive(p, [NoRequest EXCEPT !.op = "list", !.user_lat = pt[1], !.user_lng = pt[2]],
                "l_select", limit)

\* The orders in which a select without "order by" may return the rows with ids S.
RowOrders(S) ==
    { s \in [1..Cardinality(S) -> S] : \A i, j \in DOMAIN s : i # j => s[i] # s[j] }

\* app.py:144-166  the rows by id; radians(None) raises TypeError, answered 500
reports_handler_get(p) ==
    /\ pc[p] = "l_select"
    /\ \E all_reports \in RowOrders(DOMAIN reports) :
          LET user_lat == req[p].user_lat
              user_lng == req[p].user_lng
              Near(id) == haversine(user_lat, user_lng, reports[id].latitude,
                                    reports[id].longitude) <= 1000
          IN  IF user_lat # None /\ user_lng # None
              THEN IF \E id \in DOMAIN reports :
                          reports[id].latitude = None \/ reports[id].longitude = None
                   THEN Finish(p, Response(500))
                   ELSE Finish(p, [Response(200) EXCEPT
                                      !.reports = SelectSeq(all_reports, Near)])
              ELSE Finish(p, [Response(200) EXCEPT !.reports = all_reports])
    /\ UNCHANGED <<loc, storeVars, histVars>>

(* ------------------------------ the system ----------------------------- *)
\* Requests are served concurrently by the handler threads.
Next ==
    \E p \in Procs :
        \/ StartSighting(p, Direct, MaxRequests)
        \/ StartResolved(p, Direct, MaxRequests)
        \/ StartCreate(p, CreateForms, MaxRequests)
        \/ StartGet(p, MaxRequests)
        \/ StartDelete(p, MaxRequests)
        \/ StartList(p, MaxRequests)
        \/ StartStatus(p, {"resolved", "done"}, MaxRequests)
        \/ StartUserStatus(p, Direct, MaxRequests)
        \/ add_sighting(p)
        \/ add_resolved(p)
        \/ reports_handler_post(p)
        \/ get_report(p)
        \/ delete_report(p)
        \/ update_report_status(p)
        \/ get_user_status(p)
        \/ reports_handler_get(p)
        \/ StoreError(p)
        \/ Deliver(p)

Spec == Init /\ [][Next]_vars

\* Requests are served one after the other by one thread and every call to a
\* store succeeds: reports are created (with and without an image), voted on and
\* fetched.
SeqForms == { GoodForm, [GoodForm EXCEPT !.image = [stem |-> "photo", ext |-> "PNG"]] }

NextSeq ==
    \/ StartCreate(1, SeqForms, MaxSeqRequests)
    \/ StartSighting(1, Direct, MaxSeqRequests)
    \/ StartResolved(1, Direct, MaxSeqRequests)
    \/ StartGet(1, MaxSeqRequests)
    \/ StartUserStatus(1, Direct, MaxSeqRequests)
    \/ add_sighting(1)
    \/ add_resolved(1)
    \/ reports_handler_post(1)
    \/ get_report(1)
    \/ get_user_status(1)
    \/ Deliver(1)

SpecSeq == InitFresh /\ [][NextSeq]_vars

\* Gets and deletes of DATA_FILE records, served concurrently; the database is
\* empty.
InitFile ==
    \E S \in SUBSET LegacyIds, I \in SUBSET LegacyIds :
        /\ I \subseteq S
        /\ InitWith([i \in S |-> LegacyRecord(i, i \in I)], I, NoSeed)

NextFile ==
    \E p \in Procs :
        \/ StartGet(p, MaxFileRequests)
        \/ StartDelete(p, MaxFileRequests)
        \/ get_report(p)
        \/ delete_report(p)
        \/ Deliver(p)

SpecFile == InitFile /\ [][NextFile]_vars

\* Create requests served concurrently on an empty or seeded database, where
\* every call to Supabase may fail.
InitDb == \E seed \in Seeds : InitWith(<<>>, {}, seed)

NextCreate ==
    \E p \in Procs :
        \/ StartCreate(p, CreateForms, MaxRequests)
        \/ reports_handler_post(p)
        \/ StoreError(p)
        \/ Deliver(p)

SpecCreate == InitDb /\ [][NextCreate]_vars

\* Votes of clients that connect directly or through proxies, with or without a
\* device token, served one at a time.
NextIdentity ==
    \/ StartSighting(1, AnyRoute, MaxRequests)
    \/ StartResolved(1, AnyRoute, MaxRequests)
    \/ add_sighting(1)
    \/ add_resolved(1)
    \/ Deliver(1)

SpecIdentity == InitDb /\ [][NextIdentity]_vars

\* Votes served one at a time, where every call to Supabase may fail and the
\* client may send the vote again.
NextRetry ==
    \/ StartSighting(1, Direct, MaxRequests)
    \/ StartResolved(1, Direct, MaxRequests)
    \/ add_sighting(1)
    \/ add_resolved(1)
    \/ StoreError(1)
    \/ Deliver(1)

SpecRetry == InitDb /\ [][NextRetry]_vars

\* Resolved votes served concurrently on a store that answers every call.
NextRace ==
    \E p \in Procs :
        \/ StartResolved(p, Direct, MaxRequests)
        \/ add_resolved(p)
        \/ Deliver(p)

SpecRace == InitDb /\ [][NextRace]_vars

\* Status updates and deletes of DATA_FILE records, served concurrently.
NextStatus ==
    \E p \in Procs :
        \/ StartStatus(p, StatusInputs, MaxRequests)
        \/ StartDelete(p, MaxRequests)
        \/ update_report_status(p)
        \/ delete_report(p)
        \/ Deliver(p)

SpecStatus == InitFile /\ [][NextStatus]_vars

(* ------------------------------- claims -------------------------------- *)
VoteOps == {"add_sighting", "add_resolved"}
VoteKind(op) == IF op = "add_sighting" THEN "sighting" ELSE "resolved"
SightingSteps == {"s_check", "s_read", "s_update", "s_insert"}
ResolvedSteps == {"r_check", "r_read", "r_update", "r_insert", "r_reread", "r_delete"}
\* the steps of a vote handler after its duplicate check
PastCheck == (SightingSteps \cup ResolvedSteps) \ {"s_check", "r_check"}

\* the distinct addresses with a row in `clicks` for report r
Voters(clicks, r) == { ip \in Identities : SelectClicks(clicks, r, ip) > 0 }

\* the vote that request r casts, as a key of `accepted`
VoteOf(r) == <<VoteKind(r.op), r.report_id, r.client_ip>>

\* thread p takes a step
Steps(p) == pc'[p] # pc[p]

\* a stored count, an absent one taken as 0
CountOf(n) == IF n = None THEN 0 ELSE n

\* C1: for every existing report and each vote kind, the stored count (0 when
\* absent) equals the number of distinct identities recorded as having cast that
\* kind of vote, in every reachable state.
C1_CountEqualsVoters ==
    \A r \in DOMAIN reports :
        /\ CountOf(reports[r].sightings_count) = Cardinality(Voters(sighting_clicks, r))
        /\ CountOf(reports[r].resolved_count) = Cardinality(Voters(resolved_clicks, r))

\* C2: when an identity whose vote of this kind on this existing report was
\* accepted casts it again, the request is answered 409 at its duplicate check and
\* changes neither the counts nor the recorded voters.
C2_SecondVoteRejected ==
    [][\A p \in Procs :
         ( /\ pc[p] \in {"s_check", "r_check"}
           /\ Steps(p)
           /\ req[p].report_id \in DOMAIN reports
           /\ accepted[VoteOf(req[p])] > 0 )
         => ( /\ pc'[p] = "done"
              /\ resp'[p].status = 409
              /\ reports' = reports
              /\ sighting_clicks' = sighting_clicks
              /\ resolved_clicks' = resolved_clicks )]_vars

\* a repeated vote on an existing report has been answered 409
C2_Witness ==
    \E p \in Procs :
        /\ pc[p] = "done"
        /\ req[p].op \in VoteOps
        /\ resp[p].status = 409
        /\ req[p].report_id \in DOMAIN reports
        /\ accepted[VoteOf(req[p])] > 0

\* C3: the duplicate check and the increment-and-insert are one atomic step: no
\* identity has more than one accepted vote of a kind on a report, and no two
\* requests of one identity are both past the duplicate check of the same vote.
C3_CheckAndInsertAtomic ==
    /\ \A c \in DOMAIN accepted : accepted[c] <= 1
    /\ \A p, q \in Procs :
          ( /\ p # q
            /\ pc[p] \in PastCheck
            /\ pc[q] \in PastCheck
            /\ req[p].report_id \in DOMAIN reports )
          => VoteOf(req[p]) # VoteOf(req[q])

\* the resolved count a fetched record shows
ResolvedCountOf(rec) ==
    IF "resolved_count" \in DOMAIN rec THEN rec.resolved_count ELSE 0

\* C4: with resolved votes cast one after the other, a report below the threshold
\* is retrievable by get with its resolved count and its votes are answered
\* report_deleted false; the vote that reaches the threshold is answered
\* report_deleted true and later gets of the id are answered 404.
C4_ThresholdLifecycle ==
    \A p \in Procs :
        pc[p] = "done" =>
            /\ (req[p].op = "get_report" /\ req[p].report_id \in DOMAIN reports)
                  => /\ resp[p].status = 200
                     /\ ResolvedCountOf(resp[p].report) =
                            reports[req[p].report_id].resolved_count
            /\ ( /\ req[p].op = "get_report"
                 /\ req[p].report_id \in ReportIds
                 /\ req[p].report_id < nextId
                 /\ req[p].report_id \notin DOMAIN reports )
                  => resp[p].status = 404
            /\ (req[p].op = "add_resolved" /\ resp[p].status = 200)
                  => (resp[p].report_deleted <=> req[p].report_id \notin DOMAIN reports)

\* C5: when a resolved vote deletes a report that has an image, the image blob is
\* removed from the bucket with it.
C5_ThresholdDeletesImage ==
    [][\A p \in Procs :
         ( /\ pc[p] = "r_delete"
           /\ pc'[p] = "done"
           /\ resp'[p].report_deleted
           /\ req[p].report_id \in DOMAIN reports
           /\ reports[req[p].report_id].image_filename # None )
         => reports[req[p].report_id].image_filename \notin blobs']_vars

\* C6: no step of add_sighting changes the set of existing reports, a resolved
\* count, the resolved voters, a report's image or the bucket.
C6_SightingNeverDeletes ==
    [][\A p \in Procs :
         (pc[p] \in SightingSteps /\ Steps(p))
         => ( /\ DOMAIN reports' = DOMAIN reports
              /\ \A r \in DOMAIN reports :
                    /\ reports'[r].resolved_count = reports[r].resolved_count
                    /\ reports'[r].image_filename = reports[r].image_filename
              /\ resolved_clicks' = resolved_clicks
              /\ blobs' = blobs )]_vars

\* a sighting vote has been accepted that leaves a report with an image at a
\* sighting count of the resolution threshold
C6_Witness ==
    \E p \in Procs :
        /\ pc[p] = "done"
        /\ req[p].op = "add_sighting"
        /\ resp[p].status = 200
        /\ req[p].report_id \in DOMAIN reports
        /\ reports[req[p].report_id].sightings_count >= RESOLVED_THRESHOLD
        /\ reports[req[p].report_id].image_filename \in blobs

\* the stores are left as they are
StoresUnchanged == UNCHANGED storeVars

\* C7: a vote on a report id that is not in the reports table is answered 404 and
\* no step of it changes a store.
C7_VoteOnMissingReportNotFound ==
    [][\A p \in Procs :
         ( /\ pc[p] \in SightingSteps \cup ResolvedSteps
           /\ Steps(p)
           /\ req[p].report_id \notin DOMAIN reports )
         => ( /\ StoresUnchanged
              /\ pc'[p] = "done" => resp'[p].status = 404 )]_vars

\* a required field of the form is missing, or a coordinate is no decimal number
InvalidForm(form) ==
    \/ form.issueType = ""
    \/ form.location = ""
    \/ form.latitude = "" \/ ~IsFloat(form.latitude)
    \/ form.longitude = "" \/ ~IsFloat(form.longitude)

\* C8: a create request with a missing required field or a malformed coordinate
\* is answered 400 and inserts no report.
C8_CreateValidates ==
    [][\A p \in Procs :
         (CreateInsert(p) /\ InvalidForm(req[p].form))
         => (resp'[p].status = 400 /\ reports' = reports)]_vars

\* the fields of a report that create sets
CreatedFields ==
    { "issue_type", "custom_issue", "description", "location_name", "latitude",
      "longitude", "image_filename" }

SameReport(rec, row) == \A f \in CreatedFields : rec[f] = row[f]

\* C9: a create request with all required fields succeeds, and a get of a created
\* report's id is answered with the record as created.
C9_CreateGetRoundTrip ==
    \A p \in Procs :
        pc[p] = "done" =>
            /\ (req[p].op = "create" /\ ~InvalidForm(req[p].form))
                  => (resp[p].status = 201 /\ resp[p].report_id \in DOMAIN reports)
            /\ (req[p].op = "get_report" /\ req[p].report_id \in DOMAIN reports)
                  => /\ resp[p].status = 200
                     /\ SameReport(resp[p].report, reports[req[p].report_id])

\* C10: once delete_report has answered success for an id, no record of that id
\* is left for get_report (DATA_FILE) or for the list (the reports table); and a
\* delete of an id that DATA_FILE does not hold is answered 404 and changes no store.
C10_DeleteIsPermanent ==
    [][/\ \A id \in deletedOk' :
             id \notin DOMAIN fileReports' /\ id \notin DOMAIN reports'
       /\ \A p \in Procs :
             ( /\ pc[p] = "d_load"
               /\ Steps(p)
               /\ req[p].report_id \notin DOMAIN fileReports )
             => (pc'[p] = "done" /\ resp'[p].status = 404 /\ StoresUnchanged)]_vars

\* C11: when the removal of the image blob fails in a delete of a stored record
\* that has an image, the request goes on to remove the record: it writes
\* DATA_FILE without the record and answers success.
C11_BlobFailureSwallowed ==
    [][\A p \in Procs :
         /\ ( /\ pc[p] = "d_remove"
              /\ Steps(p)
              /\ loc[p].image_filename \in blobs' )
            => pc'[p] = "d_save"
         /\ ( /\ pc[p] = "d_save"
              /\ Steps(p)
              /\ loc[p].image_filename \in blobs )
            => ( /\ resp'[p].status = 200
                 /\ req[p].report_id \notin DOMAIN fileReports'
                 /\ req[p].report_id \in deletedOk' )]_vars

\* a delete has answered success and removed the record while the record's
\* image is still in the bucket
C11_Witness ==
    \E p \in Procs :
        /\ pc[p] = "done"
        /\ req[p].op = "delete_report"
        /\ resp[p].status = 200
        /\ loc[p].image_filename # None
        /\ loc[p].image_filename \in blobs
        /\ req[p].report_id \notin DOMAIN fileReports

\* the ids in a list response
Listed(rows) == { rows[i] : i \in DOMAIN rows }

\* the stored reports at most 1 km from the point (lat, lng)
Within1Km(lat, lng) ==
    { id \in DOMAIN reports :
        /\ reports[id].latitude # None
        /\ reports[id].longitude # None
        /\ haversine(lat, lng, reports[id].latitude, reports[id].longitude) <= 1000 }

\* C12: a list request with a reference point is answered with exactly the stored
\* reports at most 1 km from the point, each once, and a list request without a
\* reference point with all stored reports.
C12_ListFiltersByDistance ==
    [][\A p \in Procs :
         reports_handler_get(p)
         => LET wanted == IF req[p].user_lat # None /\ req[p].user_lng # None
                          THEN Within1Km(req[p].user_lat, req[p].user_lng)
                          ELSE DOMAIN reports
            IN  /\ resp'[p].status = 200
                /\ Listed(resp'[p].reports) = wanted
                /\ Len(resp'[p].reports) = Cardinality(wanted)]_vars

\* C13: the reports of a list response are in the order of their creation, the
\* most recently created first (the reports table numbers its rows as they are
\* created).
C13_ListNewestFirst ==
    [][\A p \in Procs :
         (reports_handler_get(p) /\ resp'[p].status = 200)
         => \A i, j \in DOMAIN resp'[p].reports :
               i < j => resp'[p].reports[i] > resp'[p].reports[j]]_vars

\* the fields of a DATA_FILE record that a status update leaves alone
KeptFields == CreatedFields

\* C14: a status update with a status outside pending, in_progress, resolved is
\* answered 400 whether or not the record exists; one with a valid status for an
\* id DATA_FILE does not hold is answered 404; neither changes a stored record.
\* A status update that succeeds changes nothing but the status and updated_at
\* of the record it addresses.
C14_SetStatusValidates ==
    [][\A p \in Procs :
         /\ ( /\ pc[p] = "p_load"
              /\ Steps(p)
              /\ req[p].new_status \notin ValidStatuses )
            => (pc'[p] = "done" /\ resp'[p].status = 400 /\ StoresUnchanged)
         /\ ( /\ pc[p] = "p_load"
              /\ Steps(p)
              /\ req[p].new_status \in ValidStatuses
              /\ req[p].report_id \notin DOMAIN fileReports )
            => (pc'[p] = "done" /\ resp'[p].status = 404 /\ StoresUnchanged)
         /\ (pc[p] \in {"p_load", "p_save"} /\ Steps(p))
            => ( /\ UNCHANGED <<reports, sighting_clicks, resolved_clicks, blobs>>
                 /\ DOMAIN fileReports' = DOMAIN fileReports
                 /\ \A i \in DOMAIN fileReports :
                       IF i = req[p].report_id
                       THEN \A f \in KeptFields : fileReports'[i][f] = fileReports[i][f]
                       ELSE fileReports'[i] = fileReports[i] )
         /\ (pc[p] = "p_save" /\ Steps(p))
            => ( /\ resp'[p].status = 200
                 /\ fileReports'[req[p].report_id].status = req[p].new_status )]_vars

\* C15: the image is uploaded before the row is inserted; a create whose upload
\* fails is answered 500 and inserts no row; and every stored report that names
\* an image names a blob that was uploaded.
C15_NoRecordOfFailedUpload ==
    [][/\ \A id \in DOMAIN reports' :
             reports'[id].image_filename # None
                 => reports'[id].image_filename \in blobs'
       /\ \A p \in Procs :
             /\ (pc[p] = "c_upload" /\ Steps(p) /\ blobs' = blobs)
                => (pc'[p] = "done" /\ resp'[p].status = 500 /\ reports' = reports)
             /\ (pc[p] = "c_insert" /\ Steps(p) /\ HasUpload(req[p].form))
                => loc[p].image_filename \in blobs]_vars

\* one create has stored a report with its uploaded image, and another, whose
\* upload failed, has been answered 500
C15_Witness ==
    \E p, q \in Procs :
        /\ pc[p] = "done" /\ req[p].op = "create" /\ resp[p].status = 201
        /\ resp[p].report_id \in DOMAIN reports
        /\ reports[resp[p].report_id].image_filename = loc[p].image_filename
        /\ loc[p].image_filename \in blobs
        /\ pc[q] = "done" /\ req[q].op = "create" /\ HasUpload(req[q].form)
        /\ resp[q].status = 500
        /\ loc[q].image_filename = None

\* the identity the deduplication is to use for a request with headers h
IdentityToken(h) ==
    IF h.device_token # None THEN h.device_token
    ELSE IF h.chain # <<>> THEN h.chain[1]
    ELSE h.remote_addr

\* C16: the identity a vote handler deduplicates by is the request's device
\* token if it carries one; else the first address of its X-Forwarded-For chain
\* if it has one; else the address of the connection.
C16_DeviceTokenPreferred ==
    \A p \in Procs :
        req[p].op \in VoteOps => req[p].client_ip = IdentityToken(req[p].headers)

\* C17: a user-status request changes no store, and for a stored report it
\* answers, for each kind of vote separately, whether a vote of that kind by the
\* requesting identity on that report has been accepted.
C17_UserStatusPureLookup ==
    [][\A p \in Procs :
         (pc[p] \in {"u_sighting", "u_resolved"} /\ Steps(p))
         => /\ StoresUnchanged
            /\ (pc'[p] = "done" /\ req[p].report_id \in DOMAIN reports)
               => /\ resp'[p].status = 200
                  /\ resp'[p].has_sighting_click <=>
                         accepted[<<"sighting", req[p].report_id, req[p].client_ip>>] > 0
                  /\ resp'[p].has_resolved_click <=>
                         accepted[<<"resolved", req[p].report_id, req[p].client_ip>>] > 0]_vars

\* a user-status request for an identity with an accepted sighting vote and no
\* resolved vote on a stored report has been answered
C17_Witness ==
    \E p \in Procs :
        /\ pc[p] = "done"
        /\ req[p].op = "get_user_status"
        /\ req[p].report_id \in DOMAIN reports
        /\ resp[p].has_sighting_click
        /\ ~resp[p].has_resolved_click
        /\ accepted[<<"sighting", req[p].report_id, req[p].client_ip>>] > 0

\* C18: the report a successful create stores has a sightings count and a
\* resolved count of 0, no recorded voter of either kind, and status pending.
C18_CreateInitializes ==
    [][\A p \in Procs :
         (CreateInsert(p) /\ resp'[p].status = 201)
         => LET id == resp'[p].report_id
            IN  /\ id \in DOMAIN reports'
                /\ reports'[id].sightings_count = 0
                /\ reports'[id].resolved_count = 0
                /\ Voters(sighting_clicks', id) = {}
                /\ Voters(resolved_clicks', id) = {}
                /\ reports'[id].status = "pending"]_vars

\* the stored tally of the kind of vote that request r casts
TallyOf(r) ==
    IF r.op = "add_sighting" THEN reports[r.report_id].sightings_count
    ELSE reports[r.report_id].resolved_count

\* C19: the first vote of an identity on a stored report whose tally of that
\* kind is absent does not end in an error, and its update leaves the count at 1.
C19_AbsentTallyIsZero ==
    [][\A p \in Procs :
         ( /\ pc[p] \in SightingSteps \cup ResolvedSteps
           /\ Steps(p)
           /\ req[p].report_id \in DOMAIN reports
           /\ TallyOf(req[p]) = None )
         => /\ ~(pc'[p] = "done" /\ resp'[p].status >= 500)
            /\ pc[p] \in {"s_update", "r_update"}
               => ( /\ req[p].report_id \in DOMAIN reports'
                    /\ IF req[p].op = "add_sighting"
                       THEN reports'[req[p].report_id].sightings_count = 1
                       ELSE reports'[req[p].report_id].resolved_count = 1 )]_vars

\* the clicks table of the kind of vote that request r casts
ClicksOf(r) == IF r.op = "add_sighting" THEN sighting_clicks ELSE resolved_clicks

\* C20: a vote on a stored report that is answered with an error leaves the
\* tally as the request found it: the count is the one the handler read and the
\* identity, which passed the duplicate check, is not recorded; and the step that
\* fails changes no store.
C20_FailedVoteLeavesTally ==
    [][\A p \in Procs :
         ( /\ pc[p] \in SightingSteps \cup ResolvedSteps
           /\ Steps(p)
           /\ pc'[p] = "done"
           /\ resp'[p].status >= 500
           /\ req[p].report_id \in DOMAIN reports )
         => /\ StoresUnchanged
            /\ loc[p].count # None
               => /\ TallyOf(req[p]) = loc[p].count
                  /\ SelectClicks(ClicksOf(req[p]), req[p].report_id, req[p].client_ip) = 0]_vars

\* the identities whose resolved vote on report r was answered with success
AcceptedResolved(r) == { ip \in Identities : accepted[<<"resolved", r, ip>>] > 0 }

\* C21: when no request is being served, no stored report has accepted resolved
\* votes of RESOLVED_THRESHOLD or more distinct identities: the vote that brings
\* the number to the threshold deletes the report, however the requests interleave.
C21_NoLostResolvedVote ==
    (\A p \in Procs : pc[p] \in {"idle", "done"})
        => \A r \in DOMAIN reports :
               Cardinality(AcceptedResolved(r)) < RESOLVED_THRESHOLD

====
